---------------------------- MODULE Spec2Model ----------------------------
(***************************************************************************)
(* Model of installer/generate_secrets.py: the 1Password vault scan        *)
(* (OnePasswordSecretGenerator.parse_vault), the secret resolution of      *)
(* SecretGenerator.generate and its vault-backed override, and the         *)
(* load / save of the secrets directory driven by __main__.                *)
(*                                                                         *)
(* Python strings are modelled as sequences of tokens: a token is a        *)
(* maximal run of whitespace or of non-whitespace characters, so that      *)
(* str.split() and the f-string "{component} {name}" are computed rather   *)
(* than assumed.  The empty string is the empty sequence.                  *)
(***************************************************************************)
EXTENDS Integers, Sequences, FiniteSets, TLC

VARIABLES
    vault,        \* the items self.op.get_items / get_item return, in order
    environment,  \* self.environment (args.environment)
    op_secrets,   \* self.op_secrets: insertion-ordered dict, as a sequence
    scan,         \* number of vault items parse_vault has consumed
    raised,       \* the exception that ended the scan, or NoError
    disk,         \* the secrets directory: file name -> file contents
    secrets,      \* self.secrets: insertion-ordered dict component -> field map
    nloaded,      \* how many leading entries of secrets came from load()
    pc,           \* position of __main__
    outcome,      \* how the last run ended: "none", "ok", "crash" or an exception
    op,           \* args.op
    regenerate,   \* self.regenerate (args.regenerate)
    runs,         \* runs started so far; run n draws entropy and clock n
    asked,        \* (component, name) pairs requested from the adapter this run
    written,      \* files save() has written and closed this run
    opened,       \* the file save() holds open, as a set
    disk0,        \* history: the secrets directory when the run started
    repeat,       \* history: the run before this one succeeded, with the same
                  \* adapter, vault and environment
    typed         \* history: the prompt last answered and what input() returned,
                  \* recorded where the prompts are followed one by one

vaultVars == <<vault, environment, op_secrets, scan, raised>>
runVars == <<disk, secrets, nloaded, pc, outcome, op, regenerate, runs, asked,
             written, opened, disk0, repeat, typed>>
vars == <<vault, environment, op_secrets, scan, raised, disk, secrets, nloaded,
          pc, outcome, op, regenerate, runs, asked, written, opened, disk0,
          repeat, typed>>

-----------------------------------------------------------------------------
(* Bounds *)

\* items in a vault, for the scan of one vault
MaxItems == 3

\* runs of the program
MaxRuns == 2

-----------------------------------------------------------------------------
(* Python values *)

\* None, where the code holds None in a variable that otherwise holds a str
None == <<"<None>">>

NoError == "none"

Whitespace == {" ", "  "}

\* str(v): a one-token string
Str(t) == <<t>>

\* bool(v) for v a str or None
Truthy(v) == v # None /\ v # <<>>

\* a or b
Or(a, b) == IF Truthy(a) THEN a ELSE b

\* str.split() with no argument: the non-whitespace runs
Split(s) == SelectSeq(s, LAMBDA t : t \notin Whitespace)

\* f"{component} {name}"
CompositeKey(component, name) == <<component, " ", name>>

Range(s) == {s[i] : i \in DOMAIN s}

-----------------------------------------------------------------------------
(* dict: an insertion-ordered sequence of [key, value] entries *)

EmptyDict == <<>>

Keys(d) == {d[i].key : i \in DOMAIN d}

Has(d, k) == k \in Keys(d)

Get(d, k) == d[CHOOSE i \in DOMAIN d : d[i].key = k].value

\* d[k] = v: an existing key keeps its position
Put(d, k, v) ==
    IF Has(d, k)
    THEN [i \in DOMAIN d |-> IF d[i].key = k THEN [key |-> k, value |-> v] ELSE d[i]]
    ELSE Append(d, [key |-> k, value |-> v])

-----------------------------------------------------------------------------
(* Vault items *)

KeyField(k)   == [label |-> "generate_secrets_key", value |-> k, purpose |-> ""]
EnvField(e)   == [label |-> "environment", value |-> Str(e), purpose |-> ""]
NotesField(v) == [label |-> "notesPlain", value |-> v, purpose |-> "NOTES"]
PassField(v)  == [label |-> "password", value |-> v, purpose |-> "PASSWORD"]

\* The locals of one iteration of the item loop, before the field loop
ItemLocals == [key |-> None, secret_notes |-> None, secret_password |-> None,
               environments |-> <<>>, error |-> NoError]

\* One iteration of "for field in item.fields"
ScanField(l, field) ==
    IF l.error # NoError THEN l
    ELSE IF field.label = "generate_secrets_key"
         THEN IF l.key = None
              THEN [l EXCEPT !.key = field.value]
              ELSE [l EXCEPT !.error = "Exception:two-keys"]
    ELSE IF field.label = "environment"
         THEN [l EXCEPT !.environments = Append(@, field.value)]
    ELSE IF field.label = "notesPlain"
         THEN [l EXCEPT !.secret_notes = field.value]
    ELSE IF field.purpose = "PASSWORD"
         THEN [l EXCEPT !.secret_password = field.value]
    ELSE l

RECURSIVE ScanFields(_, _)
ScanFields(l, fields) ==
    IF fields = <<>> THEN l
    ELSE ScanFields(ScanField(l, Head(fields)), Tail(fields))

\* The locals of the item after its field loop
ItemScan(item) == ScanFields(ItemLocals, item.fields)

\* The storing decision at the end of the item loop body (no exception)
StoreGlobalAlways(ops, env, l) ==
    LET secret_value == Or(l.secret_notes, l.secret_password) IN
    IF ~Truthy(l.key) THEN ops
    ELSE IF ~Truthy(secret_value) THEN ops
    ELSE IF env \in Range(l.environments) THEN Put(ops, l.key, secret_value)
    ELSE IF l.environments = <<>> THEN Put(ops, l.key, secret_value)
    ELSE ops

StoreWithoutPayload(ops, env, l) ==
    LET secret_value == Or(l.secret_notes, l.secret_password) IN
    IF ~Truthy(l.key) THEN ops
    ELSE IF env \in Range(l.environments) THEN Put(ops, l.key, secret_value)
    ELSE IF l.environments = <<>> /\ ~Has(ops, l.key)
         THEN Put(ops, l.key, secret_value)
    ELSE ops

StoreAnyScope(ops, env, l) ==
    LET secret_value == Or(l.secret_notes, l.secret_password) IN
    IF ~Truthy(l.key) THEN ops
    ELSE IF ~Truthy(secret_value) THEN ops
    ELSE IF l.environments # <<>> THEN Put(ops, l.key, secret_value)
    ELSE IF ~Has(ops, l.key) THEN Put(ops, l.key, secret_value)
    ELSE ops

StoreFirstWrite(ops, env, l) ==
    LET secret_value == Or(l.secret_notes, l.secret_password) IN
    IF ~Truthy(l.key) THEN ops
    ELSE IF ~Truthy(secret_value) THEN ops
    ELSE IF (env \in Range(l.environments) \/ l.environments = <<>>)
            /\ ~Has(ops, l.key)
         THEN Put(ops, l.key, secret_value)
    ELSE ops

Store(ops, env, l) ==
    LET secret_value == Or(l.secret_notes, l.secret_password) IN
    IF ~Truthy(l.key) THEN ops
    ELSE IF ~Truthy(secret_value) THEN ops
    ELSE IF env \in Range(l.environments) THEN Put(ops, l.key, secret_value)
    ELSE IF l.environments = <<>> /\ ~Has(ops, l.key)
         THEN Put(ops, l.key, secret_value)
    ELSE ops

\* parse_vault over the items not yet scanned: [ops, error, scan]
RECURSIVE ParseFrom(_, _, _, _)
ParseFrom(ops, env, items, n) ==
    IF n >= Len(items) THEN [ops |-> ops, error |-> NoError, scan |-> n]
    ELSE LET l == ItemScan(items[n + 1]) IN
         IF l.error # NoError
         THEN [ops |-> ops, error |-> l.error, scan |-> n + 1]
         ELSE ParseFrom(Store(ops, env, l), env, items, n + 1)

parse_vault(env, items) == ParseFrom(EmptyDict, env, items, 0)

-----------------------------------------------------------------------------
(* The record set: self.secrets and the secrets directory *)

\* a field map: field name -> value
EmptyMap == [f \in {} |-> <<>>]

MapSet(m, name, v) == [f \in DOMAIN m \cup {name} |-> IF f = name THEN v ELSE m[f]]

\* the generator object as the methods see it: self.secrets, the requests made
\* of the adapter, and the exception that is propagating (NoError: none)
Self(secs, ask) == [secrets |-> secs, asked |-> ask, error |-> NoError]

\* raise
Raise(self, exc) == [self EXCEPT !.error = exc]

\* self.secrets[component] on the defaultdict: a missing component is created
Touch(secs, component) ==
    IF Has(secs, component) THEN secs ELSE Put(secs, component, EmptyMap)

\* SecretGenerator._exists
_exists(secs, component, name) ==
    Has(secs, component) /\ name \in DOMAIN Get(secs, component)

\* SecretGenerator._get_current
_get_current(secs, component, name) ==
    IF ~_exists(secs, component, name) THEN None ELSE Get(secs, component)[name]

\* SecretGenerator._set
_set(secs, component, name, new_value) ==
    Put(secs, component, MapSet(Get(Touch(secs, component), component), name, new_value))

\* SecretGenerator._set_generated
SetGeneratedIfMissing(secs, regen, component, name, new_value) ==
    IF ~_exists(secs, component, name)
    THEN _set(secs, component, name, new_value)
    ELSE secs

SetGeneratedAlways(secs, regen, component, name, new_value) ==
    _set(secs, component, name, new_value)

_set_generated(secs, regen, component, name, new_value) ==
    IF ~_exists(secs, component, name) \/ regen
    THEN _set(secs, component, name, new_value)
    ELSE secs

\* json.dumps of a field map, and what open(..., "w") leaves before the write
Dumps(m) == [valid |-> TRUE, map |-> m]
Truncated == [valid |-> FALSE, map |-> EmptyMap]

\* the value at (component, name) in a directory, None when there is none
OnDisk(d, component, name) ==
    IF component \in DOMAIN d /\ d[component].valid /\ name \in DOMAIN d[component].map
    THEN d[component].map[name]
    ELSE None

-----------------------------------------------------------------------------
(* Credential primitives: each draw of entropy or of the clock is fresh *)

\* bcrypt.hashpw(new_pw, bcrypt.gensalt(rounds=15))
HashPw(pw, n) == <<"$2b$15$", ToString(n)>> \o pw

\* datetime.now(timezone.utc).strftime(...)
NowTime(n) == <<"T", ToString(n), "Z">>

\* secrets.token_hex(16)
TokenHex(n) == <<"hex", ToString(n)>>

NonAscii == {"\\u00e9"}

\* str.encode("ascii") succeeds
IsAscii(s) == \A i \in DOMAIN s : s[i] \notin NonAscii

-----------------------------------------------------------------------------
(* The source adapters *)

\* the operator's files, for input_file: name -> contents
Files == [f \in {"docker.json", "tls.key", "tls.crt"} |->
             IF f = "docker.json" THEN <<"{auths}">>
             ELSE IF f = "tls.key" THEN <<"PRIVATE-KEY">>
             ELSE <<"CERT-CHAIN">>]

\* SecretGenerator.input_field, input_string being what input() returns
PromptFieldAlways(self, component, name, input_string) ==
    [self EXCEPT !.secrets = _set(@, component, name, input_string),
                 !.asked = @ \cup {<<component, name>>}]

prompt_field(self, component, name, input_string) ==
    LET secs == Touch(self.secrets, component)
        ask  == self.asked \cup {<<component, name>>} IN
    IF input_string # <<>>
    THEN [self EXCEPT !.secrets = _set(secs, component, name, input_string),
                      !.asked = ask]
    ELSE [self EXCEPT !.secrets = secs, !.asked = ask]

\* SecretGenerator.input_file, fname being what input() returns
prompt_file(self, component, name, fname) ==
    LET secs == Touch(self.secrets, component)
        ask  == self.asked \cup {<<component, name>>} IN
    IF fname = <<>>
    THEN [self EXCEPT !.secrets = secs, !.asked = ask]
    ELSE IF Len(fname) = 1 /\ fname[1] \in DOMAIN Files
    THEN [self EXCEPT !.secrets = _set(secs, component, name, Files[fname[1]]),
                      !.asked = ask]
    ELSE [self EXCEPT !.secrets = secs, !.asked = ask,
                      !.error = "FileNotFoundError"]

\* OnePasswordSecretGenerator.input_field
OpInputFieldIfMissing(self, ops, component, name) ==
    LET key == CompositeKey(component, name)
        ask == self.asked \cup {<<component, name>>} IN
    IF ~Has(ops, key)
    THEN [self EXCEPT !.asked = ask, !.error = "Exception:not-in-1password"]
    ELSE IF _exists(self.secrets, component, name)
    THEN [self EXCEPT !.asked = ask]
    ELSE [self EXCEPT !.secrets = _set(self.secrets, component, name, Get(ops, key)),
                      !.asked = ask]

op_input_field(self, ops, component, name) ==
    LET key == CompositeKey(component, name)
        ask == self.asked \cup {<<component, name>>} IN
    IF ~Has(ops, key)
    THEN [self EXCEPT !.asked = ask, !.error = "Exception:not-in-1password"]
    ELSE [self EXCEPT !.secrets = _set(self.secrets, component, name, Get(ops, key)),
                      !.asked = ask]

\* a call of input_field or input_file and what input() returned to it
Call(method, component, name, input_string) ==
    [method |-> method, component |-> component, name |-> name,
     input |-> input_string]

\* no prompt answered yet
NoCall == Call("none", "", "", <<>>)

\* self.input_field / self.input_file, dispatched on the class of self
input_field(self, isOp, ops, component, name, input_string) ==
    IF self.error # NoError THEN self
    ELSE IF isOp THEN op_input_field(self, ops, component, name)
    ELSE prompt_field(self, component, name, input_string)

input_file(self, isOp, ops, component, name, fname) ==
    IF self.error # NoError THEN self
    ELSE IF isOp THEN op_input_field(self, ops, component, name)
    ELSE prompt_file(self, component, name, fname)

-----------------------------------------------------------------------------
(* SecretGenerator: the per-component resolution *)

\* SecretGenerator._pull_secret
_pull_secret(self, isOp, ops, fname) ==
    input_file(self, isOp, ops, "pull-secret", ".dockerconfigjson", fname)

\* SecretGenerator._ingress_nginx
_ingress_nginx(self, isOp, ops, keyFile, crtFile) ==
    input_file(input_file(self, isOp, ops, "ingress-nginx", "tls.key", keyFile),
               isOp, ops, "ingress-nginx", "tls.crt", crtFile)

\* lines 149-158 of _argocd: the hash and its timestamp
HashOnly(self, regen, current_pw, new_pw, n) ==
    IF current_pw # new_pw \/ regen
    THEN IF ~IsAscii(new_pw) THEN Raise(self, "UnicodeEncodeError")
         ELSE [self EXCEPT !.secrets =
                   _set(@, "argocd", "admin.password", HashPw(new_pw, n))]
    ELSE self

HashOnRegenerateOnly(self, regen, current_pw, new_pw, n) ==
    IF regen
    THEN IF ~IsAscii(new_pw) THEN Raise(self, "UnicodeEncodeError")
         ELSE [self EXCEPT !.secrets =
                   _set(_set(@, "argocd", "admin.password", HashPw(new_pw, n)),
                        "argocd", "admin.passwordMtime", NowTime(n))]
    ELSE self

HashAndMtime(self, regen, current_pw, new_pw, n) ==
    IF current_pw # new_pw \/ regen
    THEN IF ~IsAscii(new_pw) THEN Raise(self, "UnicodeEncodeError")
         ELSE [self EXCEPT !.secrets =
                   _set(_set(@, "argocd", "admin.password", HashPw(new_pw, n)),
                        "argocd", "admin.passwordMtime", NowTime(n))]
    ELSE self

\* SecretGenerator._argocd; n is the entropy and clock reading of this call
_argocd(self, isOp, ops, regen, pwInput, dexInput, n) ==
    LET current_pw == _get_current(self.secrets, "installer",
                                   "argocd.admin.plaintext_password")
        s1 == input_field(self, isOp, ops, "installer",
                          "argocd.admin.plaintext_password", pwInput)
    IN
    IF s1.error # NoError THEN s1
    ELSE IF ~_exists(s1.secrets, "installer", "argocd.admin.plaintext_password")
    THEN Raise(s1, "KeyError")
    ELSE LET new_pw == Get(s1.secrets, "installer")["argocd.admin.plaintext_password"]
             s2 == HashAndMtime(s1, regen, current_pw, new_pw, n)
             s3 == input_field(s2, isOp, ops, "argocd", "dex.clientSecret", dexInput)
         IN
         IF s3.error # NoError THEN s3
         ELSE [s3 EXCEPT !.secrets =
                   _set_generated(@, regen, "argocd", "server.secretkey", TokenHex(n))]

\* self._cert_manager(): neither class defines the method
_cert_manager(self) == Raise(self, "AttributeError")

\* lines 47-56 of SecretGenerator.generate
Branch(self, isOp, ops, enabledInput, keyFile, crtFile) ==
    LET s1 == input_field(self, isOp, ops, "cert-manager", "enabled", enabledInput) IN
    IF s1.error # NoError THEN s1
    ELSE IF ~_exists(s1.secrets, "cert-manager", "enabled") THEN Raise(s1, "KeyError")
    ELSE LET use_cert_manager == Get(s1.secrets, "cert-manager")["enabled"] IN
         IF use_cert_manager = Str("y") THEN _cert_manager(s1)
         ELSE IF use_cert_manager = Str("n")
              THEN _ingress_nginx(s1, isOp, ops, keyFile, crtFile)
         ELSE Raise(s1, "Exception:invalid-enabled")

-----------------------------------------------------------------------------
(* OnePasswordSecretGenerator.generate: the overlay of the vault keys *)

\* one iteration of "for composite_key, secret_value in self.op_secrets.items()"
OverlayEveryKey(self, ops, composite_key) ==
    LET parts == Split(composite_key) IN
    IF self.error # NoError THEN self
    ELSE IF Len(parts) # 2 THEN Raise(self, "ValueError")
    ELSE op_input_field(self, ops, parts[1], parts[2])

OverlayKey(self, ops, composite_key) ==
    LET parts == Split(composite_key) IN
    IF self.error # NoError THEN self
    ELSE IF Len(parts) # 2 THEN Raise(self, "ValueError")
    ELSE IF parts[1] \in {"ingress-nginx", "cert-manager"} THEN self
    ELSE op_input_field(self, ops, parts[1], parts[2])

RECURSIVE OverlayFrom(_, _, _)
OverlayFrom(self, ops, n) ==
    IF n > Len(ops) THEN self
    ELSE OverlayFrom(OverlayKey(self, ops, ops[n].key), ops, n + 1)

Overlay(self, ops) == OverlayFrom(self, ops, 1)

-----------------------------------------------------------------------------
(* Inputs of the runs: what the operator types and what the vault holds *)

Environments == {Str("prod"), Str("dev")}

PullSecretInputs == {<<>>, <<"docker.json">>, <<"missing.json">>}
PasswordInputs   == {<<>>, <<"hunter2">>, <<"s3cret">>, <<"\\u00e9">>}
DexInputs        == {<<>>, <<"dex-secret">>}
EnabledInputs    == {<<>>, <<"y">>, <<"n">>, <<"maybe">>}
TlsFileInputs    == {<<<<>>, <<>>>>, << <<"tls.key">>, <<"tls.crt">> >>}

\* a vault item: generation key, environment labels, notes payload
Item(key, envs, notes) ==
    [fields |-> <<KeyField(key)>> \o [i \in DOMAIN envs |-> EnvField(envs[i])]
                \o <<NotesField(notes)>>]

Global(component, name, notes) == Item(CompositeKey(component, name), <<>>, notes)

Scoped(component, name, env, notes) ==
    Item(CompositeKey(component, name), <<env>>, notes)

\* a vault that answers every request of generate when cert-manager is off;
\* the admin password differs between the environments
BaseVault ==
    << Global("pull-secret", ".dockerconfigjson", <<"{auths}">>),
       Global("installer", "argocd.admin.plaintext_password", <<"hunter2">>),
       Scoped("installer", "argocd.admin.plaintext_password", "prod", <<"s3cret">>),
       Global("argocd", "dex.clientSecret", <<"dex-secret">>),
       Global("cert-manager", "enabled", <<"n">>),
       Global("ingress-nginx", "tls.key", <<"PRIVATE-KEY">>),
       Global("ingress-nginx", "tls.crt", <<"CERT-CHAIN">>) >>

\* an item that declares two generation keys
TwoKeys ==
    [fields |-> <<KeyField(CompositeKey("argocd", "dex.clientSecret")),
                  KeyField(CompositeKey("argocd", "other")),
                  NotesField(<<"twice">>)>>]

\* an item whose first generation key field is left blank (field.value is
\* None) and whose second one names a key
BlankThenKey(key) ==
    [fields |-> <<KeyField(None), KeyField(key), NotesField(<<"blank-first">>)>>]

\* the vaults of the runs: the base vault, alone and with further items
Vaults ==
    { BaseVault,
      BaseVault \o << Global("argocd", "admin.password", <<"vault-hash">>) >>,
      BaseVault \o << Global("argocd", "admin.password", <<"vault-hash">>),
                      Global("argocd", "admin.passwordMtime", <<"vault-mtime">>),
                      Global("argocd", "server.secretkey", <<"vault-key">>) >>,
      BaseVault \o << Global("gafaelfawr", "bootstrap-token", <<"gt-token">>),
                      Global("ingress-nginx", "ca.crt", <<"CA">>),
                      Scoped("cert-manager", "enabled", "prod", <<"y">>) >>,
      BaseVault \o << Scoped("cert-manager", "enabled", "prod", <<"maybe">>),
                      Item(<<"orphan">>, <<>>, <<"value">>) >>,
      BaseVault \o << TwoKeys >>,
      BaseVault \o << BlankThenKey(CompositeKey("argocd", "other")) >>,
      SubSeq(BaseVault, 1, 3) }

-----------------------------------------------------------------------------
(* __main__: one run is construct, load, generate, save *)

RECURSIVE SetToSeq(_)
SetToSeq(S) ==
    IF S = {} THEN <<>>
    ELSE LET x == CHOOSE x \in S : TRUE IN <<x>> \o SetToSeq(S \ {x})

\* the effect of a method call on the run: an exception propagates out of
\* __main__ (lines 319-321 catch nothing), otherwise the next statement runs
SaveEvenOnError(self, next) ==
    /\ secrets' = self.secrets
    /\ asked' = self.asked
    /\ IF self.error = NoError
       THEN pc' = next /\ outcome' = outcome
       ELSE pc' = "save" /\ outcome' = self.error

Proceed(self, next) ==
    /\ secrets' = self.secrets
    /\ asked' = self.asked
    /\ IF self.error = NoError
       THEN pc' = next /\ outcome' = outcome
       ELSE pc' = "idle" /\ outcome' = self.error

\* lines 314-317: the constructor (parse_vault when --op is given)
Start(isOp, regen, env, items) ==
    /\ pc = "idle"
    /\ runs < MaxRuns
    /\ runs' = runs + 1
    /\ repeat' = (outcome = "ok" /\ op = isOp /\ vault = items /\ environment = env)
    /\ op' = isOp
    /\ regenerate' = regen
    /\ environment' = env
    /\ vault' = items
    /\ LET r == parse_vault(env, items) IN
       /\ op_secrets' = r.ops
       /\ scan' = r.scan
       /\ raised' = r.error
       /\ IF r.error = NoError
          THEN pc' = "load" /\ outcome' = "running"
          ELSE pc' = "idle" /\ outcome' = r.error
    /\ secrets' = EmptyDict
    /\ nloaded' = 0
    /\ asked' = {}
    /\ written' = {}
    /\ opened' = {}
    /\ disk0' = disk
    /\ UNCHANGED <<disk, typed>>

StartInteractive ==
    \E regen \in BOOLEAN : Start(FALSE, regen, Str("prod"), <<>>)

StartOnePassword ==
    \E regen \in BOOLEAN, env \in Environments, items \in Vaults :
        Start(TRUE, regen, env, items)

\* SecretGenerator.load
LoadNothing ==
    /\ pc = "load"
    /\ secrets' = EmptyDict
    /\ nloaded' = 0
    /\ pc' = "pull_secret"
    /\ outcome' = outcome
    /\ UNCHANGED <<vaultVars, typed, disk, op, regenerate, runs, asked, written,
                   opened, disk0, repeat>>

Load ==
    /\ pc = "load"
    /\ IF \E f \in DOMAIN disk : ~disk[f].valid
       THEN /\ pc' = "idle"
            /\ outcome' = "JSONDecodeError"
            /\ UNCHANGED <<secrets, nloaded>>
       ELSE /\ secrets' = [i \in 1..Cardinality(DOMAIN disk) |->
                              LET f == SetToSeq(DOMAIN disk)[i] IN
                              [key |-> f, value |-> disk[f].map]]
            /\ nloaded' = Cardinality(DOMAIN disk)
            /\ pc' = "pull_secret"
            /\ outcome' = outcome
    /\ UNCHANGED <<vaultVars, typed, disk, op, regenerate, runs, asked, written, opened,
                   disk0, repeat>>

\* SecretGenerator.generate, line 44
PullSecret ==
    /\ pc = "pull_secret"
    /\ \E fname \in (IF op THEN {<<>>} ELSE PullSecretInputs) :
          Proceed(_pull_secret(Self(secrets, asked), op, op_secrets, fname), "argocd")
    /\ UNCHANGED <<vaultVars, typed, disk, nloaded, op, regenerate, runs, written, opened,
                   disk0, repeat>>

\* SecretGenerator.generate, line 45
Argocd ==
    /\ pc = "argocd"
    /\ \E pwInput \in (IF op THEN {<<>>} ELSE PasswordInputs),
          dexInput \in (IF op THEN {<<>>} ELSE DexInputs) :
          Proceed(_argocd(Self(secrets, asked), op, op_secrets, regenerate,
                          pwInput, dexInput, runs), "cert_manager")
    /\ UNCHANGED <<vaultVars, typed, disk, nloaded, op, regenerate, runs, written, opened,
                   disk0, repeat>>

\* SecretGenerator.generate, lines 47-56
CertManager ==
    /\ pc = "cert_manager"
    /\ \E enabledInput \in (IF op THEN {<<>>} ELSE EnabledInputs),
          tls \in (IF op THEN {<<<<>>, <<>>>>} ELSE TlsFileInputs) :
          Proceed(Branch(Self(secrets, asked), op, op_secrets, enabledInput,
                         tls[1], tls[2]),
                  IF op THEN "overlay" ELSE "save")
    /\ UNCHANGED <<vaultVars, typed, disk, nloaded, op, regenerate, runs, written, opened,
                   disk0, repeat>>

\* OnePasswordSecretGenerator.generate, lines 275-286
OverlayPass ==
    /\ pc = "overlay"
    /\ Proceed(Overlay(Self(secrets, asked), op_secrets), "save")
    /\ UNCHANGED <<vaultVars, typed, disk, nloaded, op, regenerate, runs, written, opened,
                   disk0, repeat>>

\* the components save() may write next: self.secrets.items() yields the loaded
\* components first, in the order Path.iterdir() gave them (any order), then
\* the components this run created, in the order of their creation
NextToSave ==
    LET loadedLeft == {secrets[i].key : i \in 1..nloaded} \ written
        createdLeft == {i \in (nloaded + 1)..Len(secrets) : secrets[i].key \notin written}
    IN IF loadedLeft # {} THEN loadedLeft
       ELSE IF createdLeft = {} THEN {}
       ELSE {secrets[CHOOSE i \in createdLeft : \A j \in createdLeft : i <= j].key}

\* SecretGenerator.save, line 78: open(..., "w") truncates the file
SaveOpen ==
    /\ pc = "save"
    /\ opened = {}
    /\ \E k \in NextToSave :
          /\ opened' = {k}
          /\ disk' = [f \in DOMAIN disk \cup {k} |-> IF f = k THEN Truncated ELSE disk[f]]
    /\ UNCHANGED <<vaultVars, typed, secrets, nloaded, pc, outcome, op, regenerate, runs,
                   asked, written, disk0, repeat>>

\* SecretGenerator.save, line 79 and the end of the with block
SaveWrite ==
    /\ pc = "save"
    /\ \E k \in opened :
          /\ disk' = [disk EXCEPT ![k] = Dumps(Get(secrets, k))]
          /\ written' = written \cup {k}
    /\ opened' = {}
    /\ UNCHANGED <<vaultVars, typed, secrets, nloaded, pc, outcome, op, regenerate, runs,
                   asked, disk0, repeat>>

\* save() returns and the process exits
SaveDone ==
    /\ pc = "save"
    /\ opened = {}
    /\ NextToSave = {}
    /\ pc' = "idle"
    /\ outcome' = "ok"
    /\ UNCHANGED <<vaultVars, typed, disk, secrets, nloaded, op, regenerate, runs, asked,
                   written, opened, disk0, repeat>>

\* the process is killed while save() runs
Crash ==
    /\ pc = "save"
    /\ pc' = "idle"
    /\ outcome' = "crash"
    /\ UNCHANGED <<vaultVars, typed, disk, secrets, nloaded, op, regenerate, runs, asked,
                   written, opened, disk0, repeat>>

Init ==
    /\ vault = <<>>
    /\ environment = Str("prod")
    /\ op_secrets = EmptyDict
    /\ scan = 0
    /\ raised = NoError
    /\ disk = [f \in {} |-> Truncated]
    /\ secrets = EmptyDict
    /\ nloaded = 0
    /\ pc = "idle"
    /\ outcome = "none"
    /\ op = FALSE
    /\ regenerate = FALSE
    /\ runs = 0
    /\ asked = {}
    /\ written = {}
    /\ opened = {}
    /\ disk0 = [f \in {} |-> Truncated]
    /\ repeat = FALSE
    /\ typed = NoCall

Next ==
    \/ StartInteractive
    \/ StartOnePassword
    \/ Load
    \/ PullSecret
    \/ Argocd
    \/ CertManager
    \/ OverlayPass
    \/ SaveOpen
    \/ SaveWrite
    \/ SaveDone
    \/ Crash

Spec == Init /\ [][Next]_vars

-----------------------------------------------------------------------------
(* The scan of one vault, item by item: parse_vault as the constructor runs it *)

KeyA == CompositeKey("argocd", "dex.clientSecret")
KeyB == CompositeKey("gafaelfawr", "bootstrap-token")

Payloads == {<<"A">>, <<"B">>, <<"C">>, <<"D">>}

\* the items a vault is drawn from
ItemPool ==
    { Item(KeyA, <<>>, <<"A">>),
      Item(KeyA, <<"prod">>, <<"B">>),
      [fields |-> <<EnvField("staging"), EnvField("prod"), KeyField(KeyA),
                    PassField(<<"C">>)>>],
      Item(KeyA, <<>>, <<"D">>),
      Item(KeyA, <<"dev">>, <<"C">>),
      [fields |-> <<KeyField(KeyA)>>],
      [fields |-> <<KeyField(KeyA), NotesField(<<>>), PassField(<<"D">>)>>],
      [fields |-> <<NotesField(<<"A">>)>>],
      Item(KeyB, <<>>, <<"A">>),
      TwoKeys,
      BlankThenKey(KeyA) }

InitVault ==
    /\ vault \in UNION {[1..n -> ItemPool] : n \in 0..MaxItems}
    /\ environment \in Environments
    /\ op_secrets = EmptyDict
    /\ scan = 0
    /\ raised = NoError
    /\ disk = [f \in {} |-> Truncated]
    /\ secrets = EmptyDict
    /\ nloaded = 0
    /\ pc = "parse_vault"
    /\ outcome = "running"
    /\ op = TRUE
    /\ regenerate = FALSE
    /\ runs = 1
    /\ asked = {}
    /\ written = {}
    /\ opened = {}
    /\ disk0 = [f \in {} |-> Truncated]
    /\ repeat = FALSE
    /\ typed = NoCall

\* one iteration of "for item_summary in items" (lines 200-241)
ScanItem ==
    /\ pc = "parse_vault"
    /\ raised = NoError
    /\ scan < Len(vault)
    /\ scan' = scan + 1
    /\ LET l == ItemScan(vault[scan + 1]) IN
       IF l.error # NoError
       THEN raised' = l.error /\ op_secrets' = op_secrets
       ELSE raised' = raised /\ op_secrets' = Store(op_secrets, environment, l)
    /\ UNCHANGED <<vault, environment, runVars>>

NextVault == ScanItem

SpecVault == InitVault /\ [][NextVault]_vars

\* the scan has consumed every item
ScanDone == pc = "parse_vault" /\ raised = NoError /\ scan = Len(vault)

\* the value the scan has resolved for a key so far, None when there is none
Resolved(k) == IF Has(op_secrets, k) THEN Get(op_secrets, k) ELSE None

\* item i declares generation key k
Declares(i, k) ==
    \E j \in DOMAIN vault[i].fields :
        /\ vault[i].fields[j].label = "generate_secrets_key"
        /\ vault[i].fields[j].value = k

\* item i has exactly one generation key, k, and a payload
Usable(i, k) ==
    LET l == ItemScan(vault[i]) IN
    /\ l.error = NoError
    /\ l.key = k
    /\ Truthy(k)
    /\ Truthy(Or(l.secret_notes, l.secret_password))

Payload(i) ==
    LET l == ItemScan(vault[i]) IN Or(l.secret_notes, l.secret_password)

Matches(i) == environment \in Range(ItemScan(vault[i]).environments)

IsGlobal(i) == ItemScan(vault[i]).environments = <<>>

-----------------------------------------------------------------------------
(* The interactive prompts, one by one: input_field and input_file as       *)
(* SecretGenerator.generate and its helpers call them                       *)

\* distinct fields the operator is prompted for
MaxPrompts == 3

\* the fields generate asks for with input_field, and with input_file
PromptFields == { <<"installer", "argocd.admin.plaintext_password">>,
                  <<"argocd", "dex.clientSecret">> }
PromptFiles  == { <<"pull-secret", ".dockerconfigjson">>,
                  <<"ingress-nginx", "tls.key">>,
                  <<"ingress-nginx", "tls.crt">> }

FieldInputs == {<<>>, <<"hunter2">>, <<"s3cret">>}
FileInputs  == {<<>>, <<"docker.json">>, <<"tls.key">>, <<"tls.crt">>, <<"missing.json">>}

InitPrompt ==
    /\ vault = <<>>
    /\ environment = Str("prod")
    /\ op_secrets = EmptyDict
    /\ scan = 0
    /\ raised = NoError
    /\ disk = [f \in {} |-> Truncated]
    /\ secrets = EmptyDict
    /\ nloaded = 0
    /\ pc = "prompt"
    /\ outcome = "running"
    /\ op = FALSE
    /\ regenerate = FALSE
    /\ runs = 1
    /\ asked = {}
    /\ written = {}
    /\ opened = {}
    /\ disk0 = [f \in {} |-> Truncated]
    /\ repeat = FALSE
    /\ typed = NoCall

\* SecretGenerator.input_field (lines 81-89), called once
AskField ==
    /\ pc = "prompt"
    /\ \E pair \in PromptFields, input_string \in FieldInputs :
          /\ Cardinality(asked \cup {pair}) <= MaxPrompts
          /\ typed' = Call("input_field", pair[1], pair[2], input_string)
          /\ Proceed(prompt_field(Self(secrets, asked), pair[1], pair[2], input_string),
                     "prompt")
    /\ UNCHANGED <<vaultVars, disk, nloaded, op, regenerate, runs, written, opened,
                   disk0, repeat>>

\* SecretGenerator.input_file (lines 91-101), called once
AskFile ==
    /\ pc = "prompt"
    /\ \E pair \in PromptFiles, fname \in FileInputs :
          /\ Cardinality(asked \cup {pair}) <= MaxPrompts
          /\ typed' = Call("input_file", pair[1], pair[2], fname)
          /\ Proceed(prompt_file(Self(secrets, asked), pair[1], pair[2], fname),
                     "prompt")
    /\ UNCHANGED <<vaultVars, disk, nloaded, op, regenerate, runs, written, opened,
                   disk0, repeat>>

NextPrompt == AskField \/ AskFile

SpecPrompt == InitPrompt /\ [][NextPrompt]_vars

\* the (component, field) pairs of a record set
FieldsOf(secs) ==
    UNION {{<<c, f>> : f \in DOMAIN Get(secs, c)} : c \in Keys(secs)}

\* what the operator supplied to the prompt: the text typed, or the contents
\* of the file named; None when nothing was typed or the file cannot be read
Supplied(call) ==
    IF call.input = <<>> THEN None
    ELSE IF call.method = "input_field" THEN call.input
    ELSE IF Len(call.input) = 1 /\ call.input[1] \in DOMAIN Files
         THEN Files[call.input[1]]
    ELSE None

-----------------------------------------------------------------------------
(* Claims about the vault scan *)

\* C1: for a key with one global item (value A) and one item labelled
\* ["prod"] (value B), in either scan order and whatever items of other keys
\* surround them, the scan resolves the key to B for environment "prod" and
\* to A for environment "dev".
ScopingPrecedence ==
    \A a \in Payloads, b \in Payloads, i \in DOMAIN vault, j \in DOMAIN vault :
        ( /\ ScanDone
          /\ a # b
          /\ vault[i] = Item(KeyA, <<>>, a)
          /\ vault[j] = Item(KeyA, <<"prod">>, b)
          /\ \A n \in DOMAIN vault \ {i, j} : ~Declares(n, KeyA) )
        => Resolved(KeyA) = (IF environment = Str("prod") THEN b ELSE a)

\* C1 witness: the scoped item came first, the global item after it, and the
\* scan for "prod" resolved the key to the scoped value
ScopingPrecedenceWitness ==
    /\ ScanDone
    /\ environment = Str("prod")
    /\ Len(vault) = 3
    /\ vault[1] = Item(KeyA, <<"prod">>, <<"B">>)
    /\ vault[3] = Item(KeyA, <<>>, <<"A">>)
    /\ ~Declares(2, KeyA)
    /\ Resolved(KeyA) = <<"B">>

\* C2 (as claimed): when exactly two items of a key carry the target
\* environment among their labels, with different payloads, the scan resolves
\* the key to the payload of the one seen first.
DuplicateScopedFirstSeenWins ==
    \A i \in DOMAIN vault, j \in DOMAIN vault :
        ( /\ ScanDone
          /\ i < j
          /\ Usable(i, KeyA) /\ Matches(i)
          /\ Usable(j, KeyA) /\ Matches(j)
          /\ Payload(i) # Payload(j)
          /\ \A n \in DOMAIN vault \ {i, j} : ~(Usable(n, KeyA) /\ Matches(n)) )
        => Resolved(KeyA) = Payload(i)

\* the usable items of key k among the first n items, by their scope
MatchingSeen(k, n) == {i \in 1..n : Usable(i, k) /\ Matches(i)}
GlobalSeen(k, n) == {i \in 1..n : Usable(i, k) /\ IsGlobal(i)}

First(S) == CHOOSE i \in S : \A j \in S : i <= j
Last(S) == CHOOSE i \in S : \A j \in S : j <= i

\* C3: at every point of the scan, a key for which no item matching the
\* target environment has been seen holds the payload of the first global item
\* seen for it (later global items do not replace it), and a key for which a
\* matching item has been seen holds the payload of a matching item (the last
\* one seen), whatever global items were seen after it.
GlobalFirstWrite ==
    (pc = "parse_vault" /\ raised = NoError) =>
        \A k \in {KeyA, KeyB} :
            IF MatchingSeen(k, scan) # {}
            THEN Resolved(k) = Payload(Last(MatchingSeen(k, scan)))
            ELSE IF GlobalSeen(k, scan) # {}
            THEN Resolved(k) = Payload(First(GlobalSeen(k, scan)))
            ELSE Resolved(k) = None

\* C3 witness: a matching item was stored, a global item of the same key came
\* after it, and another key was resolved from the first of two global items
GlobalFirstWriteWitness ==
    /\ ScanDone
    /\ MatchingSeen(KeyA, scan) # {}
    /\ \E g \in GlobalSeen(KeyA, scan) : g > Last(MatchingSeen(KeyA, scan))
    /\ Resolved(KeyA) = Payload(Last(MatchingSeen(KeyA, scan)))

-----------------------------------------------------------------------------
(* Claims about the runs *)

PlainPw == "argocd.admin.plaintext_password"

\* the last run ended in an exception
Fatal == outcome \notin {"none", "running", "ok", "crash"}

\* the last run saved everything and exited
Succeeded == pc = "idle" /\ outcome = "ok"

\* the record set save() is asked to write
ToWrite == [c \in Keys(secrets) |-> Dumps(Get(secrets, c))]

\* C4: a run that ends in an exception (from parse_vault, load or generate)
\* never executes save: no file is opened or written, and the secrets
\* directory is what it was when the run started.
NoPartialPersistence ==
    Fatal => (disk = disk0 /\ written = {} /\ opened = {})

\* C4 witness: a second run rejected the cert-manager answer after it had
\* changed the record set in memory; the directory still holds the first run
NoPartialPersistenceWitness ==
    /\ pc = "idle"
    /\ outcome = "Exception:invalid-enabled"
    /\ DOMAIN disk0 # {}
    /\ disk = disk0
    /\ \E c \in Keys(secrets) : c \in DOMAIN disk /\ Get(secrets, c) # disk[c].map

\* C5 (as claimed): the secrets directory is always entirely the version the
\* run started from or entirely the version save() writes.
AtomicSave ==
    disk = disk0 \/ disk = ToWrite

\* C6: when a successful run without --regenerate follows a successful run
\* with the same adapter, vault and environment, argocd server.secretkey is
\* saved with the value the first run saved; and _argocd leaves an existing
\* server.secretkey alone unless --regenerate is given.
GeneratedIdempotence ==
    /\ []((Succeeded /\ ~regenerate /\ repeat) =>
            /\ OnDisk(disk, "argocd", "server.secretkey") # None
            /\ OnDisk(disk, "argocd", "server.secretkey")
                  = OnDisk(disk0, "argocd", "server.secretkey"))
    /\ [][(pc = "argocd" /\ ~regenerate
             /\ _exists(secrets, "argocd", "server.secretkey"))
          => _get_current(secrets', "argocd", "server.secretkey")
                = _get_current(secrets, "argocd", "server.secretkey")]_vars

\* C6 witness: such a second run has saved the token of the first run
GeneratedIdempotenceWitness ==
    /\ Succeeded /\ ~regenerate /\ repeat /\ ~op
    /\ OnDisk(disk, "argocd", "server.secretkey") = TokenHex(1)
    /\ runs = 2

GeneratedFields == {"server.secretkey", "admin.password", "admin.passwordMtime"}

\* what this run's generators return for a field of argocd
FreshValue(f) ==
    IF f = "server.secretkey" THEN TokenHex(runs)
    ELSE IF f = "admin.passwordMtime" THEN NowTime(runs)
    ELSE HashPw(OnDisk(disk, "installer", PlainPw), runs)

\* the vault-backed run resolved a vault value for a field of argocd
FromVault(f) == op /\ Has(op_secrets, CompositeKey("argocd", f))

\* C7 (as claimed): after a successful run with --regenerate that follows a
\* successful run of the same adapter, vault and environment, server.secretkey,
\* admin.password and admin.passwordMtime all differ from the values that
\* run persisted.
ForcedRegenerationAsClaimed ==
    (Succeeded /\ regenerate /\ repeat) => \A f \in GeneratedFields :
               OnDisk(disk, "argocd", f) # OnDisk(disk0, "argocd", f)

\* C7 (amended): after a successful run with --regenerate, each of the three
\* fields holds the value this run generated, which differs from the value
\* persisted before, unless the run is vault-backed and the vault resolves a
\* key for that field: then the field holds the vault's value.
ForcedRegeneration ==
    (Succeeded /\ regenerate) =>
        \A f \in GeneratedFields :
            IF FromVault(f)
            THEN OnDisk(disk, "argocd", f) = Get(op_secrets, CompositeKey("argocd", f))
            ELSE /\ OnDisk(disk, "argocd", f) = FreshValue(f)
                 /\ OnDisk(disk, "argocd", f) # OnDisk(disk0, "argocd", f)

\* C7 witness: a vault-backed run with --regenerate over a persisted record
\* set, the vault resolving admin.password and not server.secretkey
ForcedRegenerationWitness ==
    /\ Succeeded /\ regenerate /\ op
    /\ OnDisk(disk0, "argocd", "server.secretkey") # None
    /\ FromVault("admin.password")
    /\ ~FromVault("server.secretkey")
    /\ OnDisk(disk, "argocd", "server.secretkey") = TokenHex(runs)

AdminPassword(secs) == _get_current(secs, "argocd", "admin.password")
AdminPasswordMtime(secs) == _get_current(secs, "argocd", "admin.passwordMtime")

\* the run saved a plaintext password other than the one it loaded
PlaintextChanged ==
    OnDisk(disk, "installer", PlainPw) # OnDisk(disk0, "installer", PlainPw)

\* _argocd has just returned, in a run without --regenerate: the hash and its
\* timestamp are the ones this call computed if the plaintext password it
\* resolved differs from the one loaded (none loaded included), and the ones
\* loaded if it does not
RecomputedByArgocd ==
    (pc = "cert_manager" /\ ~regenerate) =>
        LET new_pw == _get_current(secrets, "installer", PlainPw) IN
        IF new_pw # OnDisk(disk0, "installer", PlainPw)
        THEN /\ AdminPassword(secrets) = HashPw(new_pw, runs)
             /\ AdminPasswordMtime(secrets) = NowTime(runs)
        ELSE /\ AdminPassword(secrets) = OnDisk(disk0, "argocd", "admin.password")
             /\ AdminPasswordMtime(secrets) = OnDisk(disk0, "argocd", "admin.passwordMtime")

\* C8 (as claimed): in a run without --regenerate, _argocd recomputes the hash
\* and its timestamp if the resolved plaintext password differs from the one
\* loaded, and a successful run whose plaintext password is the one loaded
\* saves both as they were loaded.
ConditionalRecomputeAsClaimed ==
    /\ RecomputedByArgocd
    /\ (Succeeded /\ ~regenerate /\ ~PlaintextChanged) =>
           \A f \in {"admin.password", "admin.passwordMtime"} :
               OnDisk(disk, "argocd", f) = OnDisk(disk0, "argocd", f)

\* C8 (amended): in a run without --regenerate, _argocd recomputes the pair if
\* the resolved plaintext password differs from the one loaded and leaves
\* both alone if not; a successful run saves each of the two as _argocd left
\* it, unless the run is vault-backed and the vault resolves a key for that
\* field: then the field is saved with the vault's value.
ConditionalRecompute ==
    /\ RecomputedByArgocd
    /\ (Succeeded /\ ~regenerate) =>
           \A f \in {"admin.password", "admin.passwordMtime"} :
               OnDisk(disk, "argocd", f) =
                   (IF FromVault(f) THEN Get(op_secrets, CompositeKey("argocd", f))
                    ELSE IF PlaintextChanged THEN FreshValue(f)
                    ELSE OnDisk(disk0, "argocd", f))

\* C8 witness: a second run changed a persisted plaintext password and saved
\* a new hash and timestamp
ConditionalRecomputeWitness ==
    /\ Succeeded /\ ~regenerate /\ ~op
    /\ OnDisk(disk0, "installer", PlainPw) # None
    /\ PlaintextChanged
    /\ OnDisk(disk, "argocd", "admin.password") = FreshValue("admin.password")
    /\ OnDisk(disk, "argocd", "admin.passwordMtime") = NowTime(runs)

\* a step of generate: the base resolution or the overlay pass
Resolving == pc \in {"pull_secret", "argocd", "cert_manager", "overlay"}

\* C9 (as claimed): no step of generate changes admin.password without
\* changing admin.passwordMtime, or the other way round.
HashAndMtimeTogetherAsClaimed ==
    [][Resolving =>
         ((AdminPassword(secrets') # AdminPassword(secrets))
            <=> (AdminPasswordMtime(secrets') # AdminPasswordMtime(secrets)))]_vars

\* C9 (amended): no step of the base resolution changes one of the two
\* without the other; the overlay pass changes each of them only to the value
\* the vault resolves for its key, so it changes one alone when the vault
\* holds a key for one of them only.
HashAndMtimeTogether ==
    [][Resolving =>
        IF pc = "overlay"
        THEN /\ (AdminPassword(secrets') # AdminPassword(secrets)) =>
                   /\ FromVault("admin.password")
                   /\ AdminPassword(secrets')
                         = Get(op_secrets, CompositeKey("argocd", "admin.password"))
             /\ (AdminPasswordMtime(secrets') # AdminPasswordMtime(secrets)) =>
                   /\ FromVault("admin.passwordMtime")
                   /\ AdminPasswordMtime(secrets')
                         = Get(op_secrets, CompositeKey("argocd", "admin.passwordMtime"))
        ELSE (AdminPassword(secrets') # AdminPassword(secrets))
                <=> (AdminPasswordMtime(secrets') # AdminPasswordMtime(secrets))]_vars

\* C9 witness: _argocd has recomputed both in a second run and the overlay
\* pass has then replaced the hash alone
HashAndMtimeTogetherWitness ==
    /\ pc = "save" /\ op /\ runs = 2
    /\ FromVault("admin.password") /\ ~FromVault("admin.passwordMtime")
    /\ AdminPassword(secrets) = Get(op_secrets, CompositeKey("argocd", "admin.password"))
    /\ AdminPasswordMtime(secrets) = NowTime(runs)

\* C10 (as claimed): once cert-manager enabled is resolved, "y" lets generate
\* go on without a request for an ingress-nginx field, "n" requests exactly
\* ingress-nginx tls.key and tls.crt and no other cert-manager field, and any
\* other value ends the run in the configuration error.
BranchExclusivity ==
    LET enabled == _get_current(secrets, "cert-manager", "enabled")
        resolved == /\ <<"cert-manager", "enabled">> \in asked
                    /\ enabled # None
                    /\ op => Has(op_secrets, CompositeKey("cert-manager", "enabled"))
        ingress == {a \in asked : a[1] = "ingress-nginx"}
        certmgr == {a \in asked : a[1] = "cert-manager"} \ {<<"cert-manager", "enabled">>}
    IN resolved =>
        /\ enabled = Str("y") =>
              /\ outcome \in {"running", "ok", "crash", "ValueError"}
              /\ ingress = {}
        /\ enabled = Str("n") =>
              /\ outcome \in {"running", "ok", "crash", "ValueError"}
              /\ ingress = {<<"ingress-nginx", "tls.key">>, <<"ingress-nginx", "tls.crt">>}
              /\ certmgr = {}
        /\ enabled \notin {Str("y"), Str("n")} =>
              outcome = "Exception:invalid-enabled"

-----------------------------------------------------------------------------
(* Claims about the interactive prompts *)

\* C12: a call of input_field or input_file changes no field other than the
\* one it asks for; that field holds the supplied value (the text typed, the
\* contents of the file named) when the operator's input is not empty, and
\* keeps the value it had when the input is empty.  A file name that cannot
\* be read raises and changes no field.
SuppliedFieldFrame ==
    [][pc = "prompt" =>
         LET c == typed'.component
             n == typed'.name
         IN /\ \A pair \in (FieldsOf(secrets) \cup FieldsOf(secrets')) \ {<<c, n>>} :
                  _get_current(secrets', pair[1], pair[2])
                     = _get_current(secrets, pair[1], pair[2])
            /\ _get_current(secrets', c, n) =
                  (IF Supplied(typed') # None THEN Supplied(typed')
                   ELSE _get_current(secrets, c, n))
            /\ (typed'.input # <<>> /\ Supplied(typed') = None)
                  => outcome' = "FileNotFoundError"]_vars

\* C12 witness: the operator answered a prompt with the empty string for a
\* field that held a value, beside another field of the same component, and
\* both values are still there
SuppliedFieldFrameWitness ==
    /\ pc = "prompt"
    /\ typed = Call("input_file", "ingress-nginx", "tls.key", <<>>)
    /\ _get_current(secrets, "ingress-nginx", "tls.key") = Files["tls.key"]
    /\ _get_current(secrets, "ingress-nginx", "tls.crt") = Files["tls.crt"]

-----------------------------------------------------------------------------
(* Claims about the fields a run requests and the failures of a run *)

\* the Supplied fields SecretGenerator.generate resolves
RequiredFields ==
    PromptFields \cup PromptFiles \cup {<<"cert-manager", "enabled">>}

\* C11 (as claimed): a run reaches save only with a non-empty value for every
\* Supplied field it requested from the adapter; a requested field that was
\* not loaded and that the adapter gave no value for ends the run before.
MissingRequiredIsFatal ==
    pc = "save" =>
        \A a \in asked \cap RequiredFields :
            Truthy(_get_current(secrets, a[1], a[2]))

\* the field map of a component, empty when the record set has no such component
FieldMap(secs, component) ==
    IF Has(secs, component) THEN Get(secs, component) ELSE EmptyMap

\* C13: no step of the overlay pass, and no step of save after it, changes the
\* field map of ingress-nginx or of cert-manager, whatever keys the resolved
\* vault mapping holds for those components.
OverlayExclusion ==
    [][(op /\ pc \in {"overlay", "save"}) =>
         \A c \in {"ingress-nginx", "cert-manager"} :
             FieldMap(secrets', c) = FieldMap(secrets, c)]_vars

\* C13 witness: the overlay pass has run over a vault mapping that holds
\* ingress-nginx ca.crt, a field the branch logic never asks for, and the
\* record set has no such field
OverlayExclusionWitness ==
    /\ op /\ pc = "save"
    /\ Has(op_secrets, CompositeKey("ingress-nginx", "ca.crt"))
    /\ Has(op_secrets, CompositeKey("cert-manager", "enabled"))
    /\ ~_exists(secrets, "ingress-nginx", "ca.crt")
    /\ _get_current(secrets, "cert-manager", "enabled") = Str("n")

\* the fields of a vault item labelled as the generation key
KeyFieldCount(item) ==
    Cardinality({j \in DOMAIN item.fields :
                    item.fields[j].label = "generate_secrets_key"})

\* C14 (as claimed): a vault-backed run whose vault holds an item with more
\* than one field labelled generate_secrets_key ends in the constructor with
\* the two-keys exception: nothing is loaded or generated, no file is written
\* and the secrets directory is what it was.
AmbiguousKeyIsFatal ==
    (op /\ runs > 0 /\ \E i \in DOMAIN vault : KeyFieldCount(vault[i]) > 1) =>
        /\ pc = "idle"
        /\ outcome = "Exception:two-keys"
        /\ secrets = EmptyDict
        /\ written = {} /\ opened = {}
        /\ disk = disk0

-----------------------------------------------------------------------------
(* Further claims about the vault scan *)

\* the item resolves a generation key and has neither a notes nor a password
\* payload
KeyWithoutPayload(item) ==
    LET l == ItemScan(item) IN
    /\ l.error = NoError
    /\ Truthy(l.key)
    /\ ~Truthy(Or(l.secret_notes, l.secret_password))

\* C15: an item with a generation key and no payload does not end the scan and
\* leaves the mapping as the items before it built it; at every point of the
\* scan the mapping is the one the same items resolve to with the items
\* without a payload taken out.
PayloadlessItemSkipped ==
    /\ [][(pc = "parse_vault" /\ raised = NoError /\ scan < Len(vault)
             /\ KeyWithoutPayload(vault[scan + 1]))
          => (raised' = NoError /\ op_secrets' = op_secrets)]_vars
    /\ []((pc = "parse_vault" /\ raised = NoError) =>
            LET seen == SubSeq(vault, 1, scan)
                kept == SelectSeq(seen, LAMBDA item : ~KeyWithoutPayload(item))
            IN op_secrets = parse_vault(environment, kept).ops)

\* C15 witness: the scan went past an item without a payload that stood
\* between a global item and a matching item of its key, and resolved the key
\* to the matching item's payload
PayloadlessItemSkippedWitness ==
    /\ ScanDone
    /\ environment = Str("prod")
    /\ Len(vault) = 3
    /\ vault[1] = Item(KeyA, <<>>, <<"A">>)
    /\ KeyWithoutPayload(vault[2])
    /\ vault[3] = Item(KeyA, <<"prod">>, <<"B">>)
    /\ Resolved(KeyA) = <<"B">>

\* the item is scoped to other environments only: it has environment labels
\* and the target environment is not among them
ForeignScoped(item) ==
    LET l == ItemScan(item) IN
    /\ l.error = NoError
    /\ l.environments # <<>>
    /\ environment \notin Range(l.environments)

\* C17: at every point of a scan that met no item with two generation keys,
\* the mapping is the one the same items resolve to with every item scoped to
\* other environments taken out, and a key that only such items carry is
\* absent from it.
EnvironmentIsolation ==
    (pc = "parse_vault" /\ raised = NoError) =>
        LET seen == SubSeq(vault, 1, scan)
            kept == SelectSeq(seen, LAMBDA item : ~ForeignScoped(item))
        IN /\ op_secrets = parse_vault(environment, kept).ops
           /\ \A k \in {KeyA, KeyB} :
                 (\A i \in 1..scan : Usable(i, k) => ForeignScoped(vault[i]))
                    => ~Has(op_secrets, k)

\* C17 witness: a scan for "prod" met an item scoped to "dev" between two
\* global items of its key and resolved the key to the first global payload;
\* the scan of the same vault for "dev" is the other case
EnvironmentIsolationWitness ==
    /\ ScanDone
    /\ environment = Str("prod")
    /\ Len(vault) = 3
    /\ vault[1] = Item(KeyA, <<>>, <<"A">>)
    /\ vault[2] = Item(KeyA, <<"dev">>, <<"C">>)
    /\ vault[3] = Item(KeyA, <<>>, <<"D">>)
    /\ Resolved(KeyA) = <<"A">>

-----------------------------------------------------------------------------
(* Further claims about the runs *)

\* C16: once the generate of a vault-backed run has returned, and in what the
\* run then saves, every key of the resolved vault mapping whose component is
\* neither ingress-nginx nor cert-manager has the vault's value at its
\* (component, field), whatever the field held before.
VaultOverlayOverrides ==
    (op /\ (pc = "save" \/ Succeeded)) =>
        \A i \in DOMAIN op_secrets :
            LET parts == Split(op_secrets[i].key) IN
            (Len(parts) = 2 /\ parts[1] \notin {"ingress-nginx", "cert-manager"}) =>
                /\ _get_current(secrets, parts[1], parts[2]) = op_secrets[i].value
                /\ Succeeded => OnDisk(disk, parts[1], parts[2]) = op_secrets[i].value

\* C16 witness: a second run, vault-backed, found a persisted server.secretkey
\* and a hash that _argocd had just recomputed, and saved the vault's values
\* for both
VaultOverlayOverridesWitness ==
    /\ op /\ Succeeded /\ runs = 2
    /\ OnDisk(disk0, "argocd", "server.secretkey") = TokenHex(1)
    /\ OnDisk(disk, "argocd", "server.secretkey") = <<"vault-key">>
    /\ OnDisk(disk0, "argocd", "admin.password") # <<"vault-hash">>
    /\ OnDisk(disk, "argocd", "admin.password") = <<"vault-hash">>

\* the (component, field) pairs of a secrets directory
PersistedFields(d) ==
    UNION {{<<c, f>> : f \in DOMAIN d[c].map} : c \in DOMAIN d}

\* the pairs a successful run resolves, overlays or generates: those it
\* requests from the adapter (the overlay included), the hash and its timestamp
\* when _argocd recomputes them, and server.secretkey when it is regenerated
Resolvable ==
    asked
    \cup (IF regenerate \/ PlaintextChanged
          THEN {<<"argocd", "admin.password">>, <<"argocd", "admin.passwordMtime">>}
          ELSE {})
    \cup (IF regenerate THEN {<<"argocd", "server.secretkey">>} ELSE {})

\* C18: after a successful run every (component, field) pair that was in the
\* secrets directory when the run started is still there, and every such pair
\* the run neither requested from its adapter nor generated has the value it
\* had.
PersistedStateOnlyGrows ==
    Succeeded =>
        \A pair \in PersistedFields(disk0) :
            /\ pair \in PersistedFields(disk)
            /\ pair \notin Resolvable =>
                  OnDisk(disk, pair[1], pair[2]) = OnDisk(disk0, pair[1], pair[2])

\* C18 witness: an interactive run after a vault-backed one has saved the
\* gafaelfawr token, which it never asked for, and the dex secret, for which
\* the operator typed nothing
PersistedStateOnlyGrowsWitness ==
    /\ Succeeded /\ ~op /\ runs = 2
    /\ <<"argocd", "dex.clientSecret">> \in asked
    /\ OnDisk(disk0, "argocd", "dex.clientSecret") = <<"dex-secret">>
    /\ OnDisk(disk, "argocd", "dex.clientSecret") = <<"dex-secret">>
    /\ OnDisk(disk0, "gafaelfawr", "bootstrap-token") = <<"gt-token">>
    /\ OnDisk(disk, "gafaelfawr", "bootstrap-token") = <<"gt-token">>

\* C19 (as claimed): whatever runs came before (successful, ended by an
\* exception, or killed during save), a successful run saves argocd
\* admin.password and admin.passwordMtime whenever it saves installer
\* argocd.admin.plaintext_password.
HashFollowsPlaintext ==
    (Succeeded /\ OnDisk(disk, "installer", PlainPw) # None) =>
        /\ OnDisk(disk, "argocd", "admin.password") # None
        /\ OnDisk(disk, "argocd", "admin.passwordMtime") # None

=============================================================================
